---- MODULE Spec2Model ----
(***************************************************************************)
(* A model of app.py: the spreadsheet-to-editorial-links pipeline.         *)
(*                                                                         *)
(* Strings are sequences of one-character strings.  A spreadsheet cell is  *)
(* a record [type, s]: type "nan" (empty cell), "num" (a numeric cell, s   *)
(* its str() form) or "str" (a text cell, s its characters).               *)
(***************************************************************************)
EXTENDS Integers, Sequences, FiniteSets, TLC

(***************************************************************************)
(* Bounds of the model.                                                    *)
(***************************************************************************)
MaxRows == 3
MaxRetryBound == 4
MaxPages == 2
MaxFewRows == 2
MaxTokens == 3

(***************************************************************************)
(* String helpers (Python str methods and the re module).                  *)
(***************************************************************************)
\* s[i..] starts with p
StartsAt(s, i, p) ==
    /\ i + Len(p) - 1 <= Len(s)
    /\ \A k \in 1..Len(p) : s[i + k - 1] = p[k]

\* `sub in s`
Contains(s, sub) == \E i \in 1..(Len(s) + 1) : StartsAt(s, i, sub)

Min(S) == CHOOSE m \in S : \A x \in S : m <= x

\* s.replace(old, new): non-overlapping occurrences, left to right; the
\* text from position i on, copied up to the next occurrence of old
RECURSIVE ReplaceFrom(_, _, _, _)
ReplaceFrom(s, i, old, new) ==
    LET hits == { j \in i..Len(s) : StartsAt(s, j, old) } IN
    IF hits = {} THEN SubSeq(s, i, Len(s))
    ELSE SubSeq(s, i, Min(hits) - 1) \o new
             \o ReplaceFrom(s, Min(hits) + Len(old), old, new)

Replace(s, old, new) == ReplaceFrom(s, 1, old, new)

Whitespace == {" ", "\t", "\n"}

\* s.strip()
RECURSIVE LStrip(_)
LStrip(s) == IF s # << >> /\ Head(s) \in Whitespace THEN LStrip(Tail(s)) ELSE s

RECURSIVE RStrip(_)
RStrip(s) ==
    IF s # << >> /\ s[Len(s)] \in Whitespace
    THEN RStrip(SubSeq(s, 1, Len(s) - 1))
    ELSE s

Strip(s) == RStrip(LStrip(s))

\* s[:n]
Prefix(s, n) == SubSeq(s, 1, IF Len(s) < n THEN Len(s) ELSE n)

\* cell values
NaN == [type |-> "nan", s |-> <<"n", "a", "n">>]
Str(chars) == [type |-> "str", s |-> chars]
Num(chars) == [type |-> "num", s |-> chars]

\* pd.isna(x)
IsNa(cell) == cell.type = "nan"
\* isinstance(x, str)
IsStr(cell) == cell.type = "str"
\* str(x)
ToStr(cell) == cell.s

\* Optional values: << >> is None (or an unbound local), << v >> is v
None == << >>
Some(v) == << v >>

(***************************************************************************)
(* extract_file_id                                                         *)
(***************************************************************************)
DocPrefix ==
    << "h","t","t","p","s",":","/","/","d","o","c","s",".","g","o","o","g","l","e",
       ".","c","o","m","/","d","o","c","u","m","e","n","t","/","d","/" >>

Upper == << "A","B","C","D","E","F","G","H","I","J","K","L","M",
            "N","O","P","Q","R","S","T","U","V","W","X","Y","Z" >>
LowerOf == << "a","b","c","d","e","f","g","h","i","j","k","l","m",
              "n","o","p","q","r","s","t","u","v","w","x","y","z" >>

Digits == { "0","1","2","3","4","5","6","7","8","9" }

\* the character class [a-zA-Z0-9-_]
IdChars ==
    { Upper[i] : i \in 1..Len(Upper) } \cup { LowerOf[i] : i \in 1..Len(LowerOf) }
        \cup Digits \cup { "-", "_" }

\* the longest run of identifier characters from position i
RECURSIVE IdRun(_, _)
IdRun(s, i) ==
    IF i <= Len(s) /\ s[i] \in IdChars THEN << s[i] >> \o IdRun(s, i + 1) ELSE << >>

\* re.search: the leftmost position where the whole pattern matches
MatchStarts(s) ==
    { i \in 1..Len(s) : StartsAt(s, i, DocPrefix) /\ IdRun(s, i + Len(DocPrefix)) # << >> }

\* a variant that matches at the start of the string only (re.match)
extract_file_id_Anchored(doc_url) ==
    IF ~IsStr(doc_url) \/ IsNa(doc_url) THEN None
    ELSE IF 1 \notin MatchStarts(doc_url.s) THEN None
         ELSE Some(IdRun(doc_url.s, 1 + Len(DocPrefix)))

extract_file_id(doc_url) ==
    IF ~IsStr(doc_url) \/ IsNa(doc_url) THEN None
    ELSE IF MatchStarts(doc_url.s) = {} THEN None
         ELSE Some(IdRun(doc_url.s, Min(MatchStarts(doc_url.s)) + Len(DocPrefix)))

(***************************************************************************)
(* sanitize_filename                                                       *)
(***************************************************************************)
MaxNameLen == 200
Untitled == << "U","n","t","i","t","l","e","d" >>
Https == << "h","t","t","p","s",":","/","/" >>
Http == << "h","t","t","p",":","/","/" >>
InvalidChars == { "<", ">", ":", "\"", "/", "\\", "|", "?", "*" }

\* re.sub(r'[<>:"/\\|?*]', "_", s)
SubInvalid(s) == [i \in 1..Len(s) |-> IF s[i] \in InvalidChars THEN "_" ELSE s[i]]

\* a variant without the cut of line 28
sanitize_filename_Uncut(filename) ==
    IF ~IsStr(filename) \/ IsNa(filename) THEN Str(Untitled)
    ELSE Str(SubInvalid(Replace(Replace(Strip(filename.s), Https, << >>), Http, << >>)))

sanitize_filename(filename) ==
    IF ~IsStr(filename) \/ IsNa(filename) THEN Str(Untitled)
    ELSE Str(Prefix(SubInvalid(Replace(Replace(Strip(filename.s), Https, << >>), Http, << >>)),
                    MaxNameLen))


(***************************************************************************)
(* check_editorial_use                                                     *)
(***************************************************************************)
LowerChar(c) ==
    IF \E i \in 1..Len(Upper) : Upper[i] = c
    THEN LowerOf[CHOOSE i \in 1..Len(Upper) : Upper[i] = c]
    ELSE c

\* s.lower()
Lower(s) == [i \in 1..Len(s) |-> LowerChar(s[i])]

Marker == << "e","d","i","t","o","r","i","a","l"," ","u","s","e"," ","o","n","l","y" >>
Confirmed == "[v] Editorial Use Only"
NotEditorial == "[x] Not Editorial"
FailedToRetrieve == "[!] Failed to retrieve"
ErrorFetching == "[!] Error fetching"

\* what requests.get(image_url) does: raises a RequestException, or answers
\* with a status code and a body whose visible text (soup.text) is `text`
Raised == [kind |-> "raise", status |-> 0, text |-> << >>]
Answer(status, text) == [kind |-> "response", status |-> status, text |-> text]

\* a variant that tests the text as received, without lower-casing it
check_editorial_use_CaseSensitive(image_url, response) ==
    IF response.kind = "raise" THEN ErrorFetching
    ELSE IF response.status # 200 THEN FailedToRetrieve
         ELSE IF Contains(response.text, Marker) THEN Confirmed ELSE NotEditorial

check_editorial_use(image_url, response) ==
    IF response.kind = "raise" THEN ErrorFetching
    ELSE IF response.status # 200 THEN FailedToRetrieve
         ELSE IF Contains(Lower(response.text), Marker) THEN Confirmed ELSE NotEditorial

(***************************************************************************)
(* Rendered documents: a sequence of pages, each with its link annotations *)
(* (page.get_links()) and its plain text (page.get_text("text")).          *)
(***************************************************************************)
UriLink(u) == [kind |-> "uri", uri |-> u]
\* an internal link: a dict of get_links() without the "uri" key
GotoLink == [kind |-> "goto", uri |-> << >>]
HasUri(link) == link.kind = "uri"

\* the end of the run of non-whitespace characters starting at i (exclusive)
RECURSIVE RunEnd(_, _)
RunEnd(s, i) == IF i <= Len(s) /\ s[i] \notin Whitespace THEN RunEnd(s, i + 1) ELSE i

\* the length of the scheme https?:// at position i, 0 if there is none
SchemeAt(s, i) ==
    IF StartsAt(s, i, Https) THEN Len(Https)
    ELSE IF StartsAt(s, i, Http) THEN Len(Http) ELSE 0

\* re.compile(r"https?://[^\s]+").findall(text)
RECURSIVE FindAllFrom(_, _)
FindAllFrom(s, i) ==
    IF i > Len(s) THEN << >>
    ELSE IF SchemeAt(s, i) > 0 /\ RunEnd(s, i + SchemeAt(s, i)) > i + SchemeAt(s, i)
         THEN << SubSeq(s, i, RunEnd(s, i + SchemeAt(s, i)) - 1) >>
                  \o FindAllFrom(s, RunEnd(s, i + SchemeAt(s, i)))
         ELSE FindAllFrom(s, i + 1)

FindAll(s) == FindAllFrom(s, 1)

AllowedHost == << "1","2","3","r","f" >>


(***************************************************************************)
(* The inputs of the model: spreadsheet cells, documents, HTTP answers.    *)
(***************************************************************************)
DefaultMaxRetries == 3

GoodDocUrl == DocPrefix \o << "A", "1" >>
BadDocUrl == << "h","t","t","p",":","/","/","x","/","d","/","A","1" >>
LabelA == << " ","h","t","t","p","s",":","/","/","a","/","b" >>
LabelB == << "c","_","d" >>

DocCells == { NaN, Str(GoodDocUrl), Str(BadDocUrl) }
LabelCells == { NaN, Str(LabelA), Str(LabelB) }
RowChoices == [doc_url : DocCells, website_url : LabelCells]

U1 == << "h","t","t","p","s",":","/","/","1","2","3","r","f","/","a" >>
U2 == << "h","t","t","p",":","/","/","x","/","b" >>

PageEmpty == [links |-> << >>, text |-> << "n","o"," ","l","i","n","k","s" >>]
PageMixed == [links |-> << GotoLink, UriLink(U2) >>,
              text |-> << "s","e","e"," ","h","t","t","p","s",":","/","/","1","2","3","r","f","/","a"," ","h","t","t","p",":","/","/","x","/","b" >>]
PageTwice == [links |-> << UriLink(U1) >>, text |-> << "h","t","t","p","s",":","/","/","1","2","3","r","f","/","a" >>]

Pages == { PageEmpty, PageMixed, PageTwice }

\* the documents a whole run may fetch
RunDocs == { << PageEmpty >>, << PageMixed >> }

\* the answers a classification target may give
Responses ==
    { Raised,
      Answer(404, << "e","d","i","t","o","r","i","a","l"," ","u","s","e"," ","o","n","l","y" >>),
      Answer(200, << "E","d","i","t","o","r","i","a","l"," ","U","s","e"," ","O","n","l","y" >>),
      Answer(200, << "e","d","i","t","o","r","i","a","l"," ","u","s","e" >>) }

(***************************************************************************)
(* State.                                                                  *)
(***************************************************************************)
VARIABLES
    columns_ok,       \* the frame has both 'Google Docs URL' and 'Website URL'
    rows,             \* df.iterrows()
    pc,               \* where the run is
    index,            \* the 0-based index of the row being processed
    results,          \* process_google_docs_from_excel: results
    formatted_title,  \* its local formatted_title (None: not bound yet)
    editorial_links,  \* its local editorial_links (None: not bound yet)
    safe_file_name,   \* its local safe_file_name
    file_id,          \* its local file_id
    pdf_file,         \* its local pdf_file: what download_pdf returned
    pdf_filename,     \* download_pdf: pdf_filename
    retry_count,      \* download_pdf: retry_count
    max_retries,      \* download_pdf: max_retries
    doc,              \* extract_editorial_links_from_pdf: doc (None: not open)
    cursor,           \* its position in the nested loops
    found,            \* its local editorial_links
    files,            \* the names of the files in the working directory
    stdout,           \* what was printed
    attempts,         \* history: the GETs of the current download_pdf call
    log,              \* history: the GETs of the current extraction
    qualified,        \* history: the rows that reached line 127 with links
    arg,              \* the argument of a call of sanitize_filename or extract_file_id
    ret               \* what that call returned (None: not returned yet)

vars == << columns_ok, rows, pc, index, results, formatted_title, editorial_links,
           safe_file_name, file_id, pdf_file, pdf_filename, retry_count, max_retries,
           doc, cursor, found, files, stdout, attempts, log, qualified, arg, ret >>

orch_locals == << formatted_title, editorial_links, safe_file_name, file_id, pdf_file >>
dl_locals == << pdf_filename, retry_count, max_retries >>
ex_locals == << doc, cursor, found >>
inputs == << columns_ok, rows >>
call == << arg, ret >>

PdfExt == << ".","p","d","f" >>
NoCursor == [page |-> 0, phase |-> "links", pos |-> 0]

RowSeqs == UNION { [1..n -> RowChoices] : n \in 1..MaxRows }

Init ==
    /\ columns_ok \in BOOLEAN
    /\ rows \in RowSeqs
    /\ pc = "start"
    /\ index = 0
    /\ results = << >>
    /\ formatted_title = None
    /\ editorial_links = None
    /\ safe_file_name = << >>
    /\ file_id = None
    /\ pdf_file = None
    /\ pdf_filename = << >>
    /\ retry_count = 0
    /\ max_retries = 0
    /\ doc = None
    /\ cursor = NoCursor
    /\ found = << >>
    /\ files = {}
    /\ stdout = << >>
    /\ attempts = << >>
    /\ log = << >>
    /\ qualified = << >>
    /\ arg = NaN
    /\ ret = None

(***************************************************************************)
(* process_google_docs_from_excel, lines 98-121                            *)
(***************************************************************************)
Say(msg, n) == [msg |-> msg, row |-> n]

\* lines 100-102: a frame without the two columns is rejected
RejectColumns ==
    /\ pc = "start"
    /\ ~columns_ok
    /\ stdout' = Append(stdout, Say("must have columns Google Docs URL and Website URL", 0))
    /\ pc' = "aborted"
    /\ UNCHANGED << inputs, call, index, results, orch_locals, dl_locals, ex_locals, files,
                    attempts, log, qualified >>

\* a variant without the test of line 100
BeginRowsUnchecked ==
    /\ pc = "start"
    /\ results' = << >>
    /\ pc' = "row"
    /\ UNCHANGED << inputs, call, index, orch_locals, dl_locals, ex_locals, files, stdout,
                    attempts, log, qualified >>

\* line 107
BeginRows ==
    /\ pc = "start"
    /\ columns_ok
    /\ results' = << >>
    /\ pc' = "row"
    /\ UNCHANGED << inputs, call, index, orch_locals, dl_locals, ex_locals, files, stdout,
                    attempts, log, qualified >>

Row == rows[index + 1]
HasRow == pc = "row" /\ index < Len(rows)
Missing(row) == IsNa(row.doc_url) \/ IsNa(row.website_url)

\* lines 112-115, the locals of line 114 bound by an earlier row
SkipMissing ==
    /\ HasRow
    /\ Missing(Row)
    /\ formatted_title # None /\ editorial_links # None
    /\ stdout' = Append(stdout, Say("skipping row", index + 1))
    /\ results' = Append(results, [title |-> formatted_title[1], links |-> editorial_links[1]])
    /\ index' = index + 1
    /\ UNCHANGED << inputs, call, pc, orch_locals, dl_locals, ex_locals, files, attempts, log,
                    qualified >>

\* lines 112-114, a local of line 114 not bound yet: UnboundLocalError
SkipMissingUnbound ==
    /\ HasRow
    /\ Missing(Row)
    /\ formatted_title = None \/ editorial_links = None
    /\ stdout' = Append(stdout, Say("skipping row", index + 1))
    /\ pc' = "crashed"
    /\ UNCHANGED << inputs, call, index, results, orch_locals, dl_locals, ex_locals, files,
                    attempts, log, qualified >>

\* lines 117-119: no identifier in the reference
SkipNoId ==
    /\ HasRow
    /\ ~Missing(Row)
    /\ extract_file_id(Str(ToStr(Row.doc_url))) = None
    /\ file_id' = None
    /\ index' = index + 1
    /\ UNCHANGED << inputs, call, pc, results, formatted_title, editorial_links, safe_file_name,
                    pdf_file, dl_locals, ex_locals, files, stdout, attempts, log, qualified >>

\* a variant without the test `if file_id:` of line 119
CallDownloadUnguarded ==
    /\ HasRow
    /\ ~Missing(Row)
    /\ file_id' = extract_file_id(Str(ToStr(Row.doc_url)))
    /\ safe_file_name' = sanitize_filename(Row.website_url).s
    /\ pdf_filename' = sanitize_filename(sanitize_filename(Row.website_url)).s \o PdfExt
    /\ retry_count' = 0
    /\ max_retries' = DefaultMaxRetries
    /\ attempts' = << >>
    /\ pc' = "download"
    /\ UNCHANGED << inputs, call, index, results, formatted_title, editorial_links, pdf_file,
                    ex_locals, files, stdout, log, qualified >>

\* lines 117-121 and 30-37: the call of download_pdf
CallDownload ==
    /\ HasRow
    /\ ~Missing(Row)
    /\ extract_file_id(Str(ToStr(Row.doc_url))) # None
    /\ file_id' = extract_file_id(Str(ToStr(Row.doc_url)))
    /\ safe_file_name' = sanitize_filename(Row.website_url).s
    /\ pdf_filename' = sanitize_filename(sanitize_filename(Row.website_url)).s \o PdfExt
    /\ retry_count' = 0
    /\ max_retries' = DefaultMaxRetries
    /\ attempts' = << >>
    /\ pc' = "download"
    /\ UNCHANGED << inputs, call, index, results, formatted_title, editorial_links, pdf_file,
                    ex_locals, files, stdout, log, qualified >>

\* lines 108, 143-144: no row is left
ReturnResults ==
    /\ pc = "row"
    /\ index = Len(rows)
    /\ stdout' = Append(stdout, Say("all results have been saved", 0))
    /\ pc' = "done"
    /\ UNCHANGED << inputs, call, index, results, orch_locals, dl_locals, ex_locals, files,
                    attempts, log, qualified >>


(***************************************************************************)
(* download_pdf, lines 39-53                                               *)
(***************************************************************************)
\* a variant whose loop runs once more: retry_count <= max_retries
LoopingOnceMore == pc = "download" /\ retry_count <= max_retries

Looping == pc = "download" /\ retry_count < max_retries

\* lines 41, 50-51: session.get raises a RequestException
AttemptRaises ==
    /\ Looping
    /\ attempts' = Append(attempts, "raise")
    /\ retry_count' = retry_count + 1
    /\ UNCHANGED << inputs, call, pc, index, results, orch_locals, pdf_filename, max_retries,
                    ex_locals, files, stdout, log, qualified >>

\* lines 42, 47-49: a status other than 200
AttemptNon200 ==
    /\ Looping
    /\ attempts' = Append(attempts, "non200")
    /\ stdout' = Append(stdout, Say("failed to download", index + 1))
    /\ pdf_file' = None
    /\ pc' = "downloaded"
    /\ UNCHANGED << inputs, call, index, results, formatted_title, editorial_links, safe_file_name,
                    file_id, dl_locals, ex_locals, files, log, qualified >>

\* lines 42-46: status 200, the body is written to the file
AttemptOk ==
    /\ Looping
    /\ attempts' = Append(attempts, "ok")
    /\ files' = files \cup { pdf_filename }
    /\ pdf_file' = Some(pdf_filename)
    /\ pc' = "downloaded"
    /\ UNCHANGED << inputs, call, index, results, formatted_title, editorial_links, safe_file_name,
                    file_id, dl_locals, ex_locals, stdout, log, qualified >>

\* lines 42-45, 50-51: status 200, the file is opened for writing, and
\* response.iter_content raises a RequestException before the body ends
AttemptStreamRaises ==
    /\ Looping
    /\ attempts' = Append(attempts, "stream_raise")
    /\ files' = files \cup { pdf_filename }
    /\ retry_count' = retry_count + 1
    /\ UNCHANGED << inputs, call, pc, index, results, orch_locals, pdf_filename, max_retries,
                    ex_locals, stdout, log, qualified >>

\* lines 39, 53: the loop ends
RetriesExhausted ==
    /\ pc = "download"
    /\ retry_count >= max_retries
    /\ pdf_file' = None
    /\ pc' = "downloaded"
    /\ UNCHANGED << inputs, call, index, results, formatted_title, editorial_links, safe_file_name,
                    file_id, dl_locals, ex_locals, files, stdout, attempts, log, qualified >>

(***************************************************************************)
(* process_google_docs_from_excel, line 123, and                           *)
(* extract_editorial_links_from_pdf, lines 57-81                           *)
(***************************************************************************)
\* the frame of the download_pdf call is gone once its result is used
Returned ==
    /\ pdf_filename' = << >>
    /\ retry_count' = 0
    /\ max_retries' = 0
    /\ attempts' = << >>

\* line 123: download_pdf returned None
SkipNoFile ==
    /\ pc = "downloaded"
    /\ pdf_file = None
    /\ Returned
    /\ index' = index + 1
    /\ pc' = "row"
    /\ UNCHANGED << inputs, call, results, orch_locals, ex_locals, files, stdout, log, qualified >>

\* page.get_links() and url_pattern.findall(page.get_text("text"))
PageLinks(page) == page.links
FoundLinks(page) == FindAll(page.text)

\* the first position of the loops of lines 62-79 at or after c that holds an item
RECURSIVE Normalize(_, _)
Normalize(d, c) ==
    IF c.page > Len(d) THEN [page |-> Len(d) + 1, phase |-> "links", pos |-> 1]
    ELSE IF c.phase = "links"
         THEN IF c.pos <= Len(PageLinks(d[c.page])) THEN c
              ELSE Normalize(d, [page |-> c.page, phase |-> "text", pos |-> 1])
         ELSE IF c.pos <= Len(FoundLinks(d[c.page])) THEN c
              ELSE Normalize(d, [page |-> c.page + 1, phase |-> "links", pos |-> 1])

FirstItem(d) == Normalize(d, [page |-> 1, phase |-> "links", pos |-> 1])
NextItem(d, c) == Normalize(d, [c EXCEPT !.pos = c.pos + 1])

\* lines 123-124, 57: the file is opened and holds the document d
OpenDocument ==
    /\ pc = "downloaded"
    /\ pdf_file # None
    /\ \E d \in RunDocs :
          /\ doc' = Some(d)
          /\ cursor' = FirstItem(d)
    /\ found' = << >>
    /\ log' = << >>
    /\ Returned
    /\ pc' = "scan"
    /\ UNCHANGED << inputs, call, index, results, orch_locals, files, stdout, qualified >>

\* lines 123-124, 57: fitz.open raises (the file is no document it can read)
OpenFails ==
    /\ pc = "downloaded"
    /\ pdf_file # None
    /\ Returned
    /\ pc' = "crashed"
    /\ UNCHANGED << inputs, call, index, results, orch_locals, ex_locals, files, stdout, log,
                    qualified >>

Scanning == pc = "scan" /\ cursor.page <= Len(doc[1])
CurPage == doc[1][cursor.page]
CurLink == PageLinks(CurPage)[cursor.pos]
CurText == FoundLinks(CurPage)[cursor.pos]

\* a variant that keeps a confirmed url only when it is not in the list yet
ClassifyOnce(url, src, response) ==
    /\ log' = Append(log, [url |-> url, src |-> src, page |-> cursor.page,
                           response |-> response,
                           verdict |-> check_editorial_use(url, response)])
    /\ found' = IF /\ check_editorial_use(url, response) = Confirmed
                   /\ \A i \in 1..Len(found) : found[i] # url
                THEN Append(found, url)
                ELSE found

\* lines 67-69 and 77-79: classify url, keep it when confirmed
Classify(url, src, response) ==
    /\ log' = Append(log, [url |-> url, src |-> src, page |-> cursor.page,
                           response |-> response,
                           verdict |-> check_editorial_use(url, response)])
    /\ found' = IF check_editorial_use(url, response) = Confirmed
                THEN Append(found, url)
                ELSE found

\* lines 64-65: a link without "uri"
ScanLinkNoUri ==
    /\ Scanning
    /\ cursor.phase = "links"
    /\ ~HasUri(CurLink)
    /\ cursor' = NextItem(doc[1], cursor)
    /\ UNCHANGED << inputs, call, pc, index, results, orch_locals, dl_locals, doc, found, files,
                    stdout, attempts, log, qualified >>

\* lines 64-69: a clickable link
ScanLink ==
    /\ Scanning
    /\ cursor.phase = "links"
    /\ HasUri(CurLink)
    /\ \E response \in Responses : Classify(CurLink.uri, "link", response)
    /\ cursor' = NextItem(doc[1], cursor)
    /\ UNCHANGED << inputs, call, pc, index, results, orch_locals, dl_locals, doc, files, stdout,
                    attempts, qualified >>

\* a variant without the host filter of line 76
ScanTextOtherUnfiltered ==
    /\ Scanning
    /\ cursor.phase = "text"
    /\ ~Contains(CurText, AllowedHost)
    /\ \E response \in Responses : Classify(CurText, "text", response)
    /\ cursor' = NextItem(doc[1], cursor)
    /\ UNCHANGED << inputs, call, pc, index, results, orch_locals, dl_locals, doc, files, stdout,
                    attempts, qualified >>

\* lines 75-76: a plain-text URL without "123rf"
ScanTextOther ==
    /\ Scanning
    /\ cursor.phase = "text"
    /\ ~Contains(CurText, AllowedHost)
    /\ cursor' = NextItem(doc[1], cursor)
    /\ UNCHANGED << inputs, call, pc, index, results, orch_locals, dl_locals, doc, found, files,
                    stdout, attempts, log, qualified >>

\* lines 75-79: a plain-text URL with "123rf"
ScanTextLink ==
    /\ Scanning
    /\ cursor.phase = "text"
    /\ Contains(CurText, AllowedHost)
    /\ \E response \in Responses : Classify(CurText, "text", response)
    /\ cursor' = NextItem(doc[1], cursor)
    /\ UNCHANGED << inputs, call, pc, index, results, orch_locals, dl_locals, doc, files, stdout,
                    attempts, qualified >>

(***************************************************************************)
(* process_google_docs_from_excel, lines 124-140                           *)
(***************************************************************************)
Record == [title |-> Replace(safe_file_name, << "_" >>, << "/" >>), links |-> found]

\* lines 129, 134 and, once per link, 138
Appended == << Record, Record >> \o [i \in 1..Len(found) |-> Record]

Printed ==
    << Say("title", index + 1) >> \o [i \in 1..Len(found) |-> Say("editorial image url", index + 1)]
       \o << Say("separator", index + 1) >>

\* lines 81, 124-125: the extractor returns, the file is removed; 127-140
Extracted ==
    /\ pc = "scan"
    /\ cursor.page > Len(doc[1])
    /\ editorial_links' = Some(found)
    /\ files' = files \ { pdf_file[1] }
    /\ IF found # << >>
       THEN /\ formatted_title' = Some(Record.title)
            /\ results' = results \o Appended
            /\ stdout' = stdout \o Printed
            /\ qualified' = Append(qualified, [row |-> index + 1, record |-> Record])
       ELSE UNCHANGED << formatted_title, results, stdout, qualified >>
    /\ doc' = None
    /\ cursor' = NoCursor
    /\ found' = << >>
    /\ log' = << >>
    /\ index' = index + 1
    /\ pc' = "row"
    /\ UNCHANGED << inputs, call, safe_file_name, file_id, pdf_file, dl_locals, attempts >>

(***************************************************************************)
(* The whole run.                                                          *)
(***************************************************************************)
Next ==
    \/ RejectColumns
    \/ BeginRows
    \/ SkipMissing
    \/ SkipMissingUnbound
    \/ SkipNoId
    \/ CallDownload
    \/ ReturnResults
    \/ AttemptRaises
    \/ AttemptNon200
    \/ AttemptOk
    \/ AttemptStreamRaises
    \/ RetriesExhausted
    \/ SkipNoFile
    \/ OpenDocument
    \/ OpenFails
    \/ ScanLinkNoUri
    \/ ScanLink
    \/ ScanTextOther
    \/ ScanTextLink
    \/ Extracted

Spec == Init /\ [][Next]_vars


\* the whole run over a frame of at most MaxFewRows rows
InitFewRows == Init /\ Len(rows) <= MaxFewRows

SpecFewRows == InitFewRows /\ [][Next]_vars

(***************************************************************************)
(* download_pdf alone: one call, with any retry bound.                     *)
(***************************************************************************)
GoodRows == { r \in RowChoices : ~Missing(r) /\ extract_file_id(Str(ToStr(r.doc_url))) # None }

InitDownload ==
    /\ columns_ok = TRUE
    /\ rows \in [1..1 -> GoodRows]
    /\ pc = "download"
    /\ index = 0
    /\ results = << >>
    /\ formatted_title = None
    /\ editorial_links = None
    /\ safe_file_name = sanitize_filename(rows[1].website_url).s
    /\ file_id = extract_file_id(Str(ToStr(rows[1].doc_url)))
    /\ pdf_file = None
    /\ pdf_filename = sanitize_filename(sanitize_filename(rows[1].website_url)).s \o PdfExt
    /\ retry_count = 0
    /\ max_retries \in 0..MaxRetryBound
    /\ doc = None
    /\ cursor = NoCursor
    /\ found = << >>
    /\ files = {}
    /\ stdout = << >>
    /\ attempts = << >>
    /\ log = << >>
    /\ qualified = << >>
    /\ arg = NaN
    /\ ret = None

NextDownload ==
    \/ AttemptRaises
    \/ AttemptNon200
    \/ AttemptOk
    \/ AttemptStreamRaises
    \/ RetriesExhausted

SpecDownload == InitDownload /\ [][NextDownload]_vars

(***************************************************************************)
(* extract_editorial_links_from_pdf alone: one call, on any document of    *)
(* up to MaxPages pages.                                                   *)
(***************************************************************************)
ExtractDocs == UNION { [1..n -> Pages] : n \in 1..MaxPages }

InitExtract ==
    /\ columns_ok = TRUE
    /\ rows = << [doc_url |-> Str(GoodDocUrl), website_url |-> Str(LabelA)] >>
    /\ pc = "scan"
    /\ index = 0
    /\ results = << >>
    /\ formatted_title = None
    /\ editorial_links = None
    /\ safe_file_name = sanitize_filename(rows[1].website_url).s
    /\ file_id = extract_file_id(Str(ToStr(rows[1].doc_url)))
    /\ pdf_file = Some(sanitize_filename(sanitize_filename(rows[1].website_url)).s \o PdfExt)
    /\ pdf_filename = << >>
    /\ retry_count = 0
    /\ max_retries = 0
    /\ \E d \in ExtractDocs :
          /\ doc = Some(d)
          /\ cursor = FirstItem(d)
    /\ found = << >>
    /\ files = { pdf_file[1] }
    /\ stdout = << >>
    /\ attempts = << >>
    /\ log = << >>
    /\ qualified = << >>
    /\ arg = NaN
    /\ ret = None

NextExtract ==
    \/ ScanLinkNoUri
    \/ ScanLink
    \/ ScanTextOther
    \/ ScanTextLink

SpecExtract == InitExtract /\ [][NextExtract]_vars


(***************************************************************************)
(* Properties.                                                             *)
(***************************************************************************)
Last(q) == q[Len(q)]
Raising == { "raise", "stream_raise" }
Got200 == { "ok", "stream_raise" }

\* the record a qualifying row is meant to contribute, once
Intended == [i \in 1..Len(qualified) |-> qualified[i].record]

\* C1: when the run returns, the result sequence holds exactly one record
\* for each qualifying row, appended once, and nothing else.
C1_OneRecordPerQualifyingRow == pc = "done" => results = Intended

\* C2: the step that processes a row with a missing reference or label
\* leaves the result sequence as it was.
C2_MissingRowAppendsNothing == [][(HasRow /\ Missing(Row)) => results' = results]_vars

\* C3: given a frame with both columns, no row's failure aborts the run:
\* the run never ends in an unhandled exception.
C3_RunNeverCrashes == columns_ok => pc # "crashed"

\* C4: once the processing of a row whose document was fetched has ended
\* (normally or by an exception), the fetched file does not exist.
C4_FetchedFileRemoved ==
    (pc \in { "row", "done", "crashed" } /\ pdf_file # None) => pdf_file[1] \notin files

\* C5: every record of the result sequence has a non-empty link sequence.
C5_NoRecordWithoutLinks == \A i \in 1..Len(results) : results[i].links # << >>

\* C6: records keep the order of their rows: when exactly two rows qualify
\* (such as R2 and R4 of R1..Rn), the run returns the record of the earlier
\* row followed by the record of the later row.
C6_TwoQualifyingRowsInOrder ==
    (pc = "done" /\ Len(qualified) = 2 /\ qualified[1].row < qualified[2].row)
        => results = << qualified[1].record, qualified[2].record >>

\* C7 as amended: every GET before the last one raised a transport exception
\* (while connecting or while the 200 body was streamed); there are at most
\* max_retries GETs; download_pdf returns the path exactly when the last GET
\* got 200 and its body was written in full, and returns None when the last
\* GET got another status or when max_retries GETs have all raised.
C7_RetriesOnlyOnExceptions ==
    /\ Len(attempts) <= max_retries
    /\ \A i \in 1..(Len(attempts) - 1) : attempts[i] \in Raising
    /\ retry_count = Cardinality({ i \in 1..Len(attempts) : attempts[i] \in Raising })
    /\ pc = "download" => \A i \in 1..Len(attempts) : attempts[i] \in Raising
    /\ pc = "downloaded" =>
          \/ /\ attempts # << >> /\ Last(attempts) = "ok"
             /\ pdf_file = Some(pdf_filename)
          \/ /\ attempts # << >> /\ Last(attempts) = "non200"
             /\ pdf_file = None
          \/ /\ \A i \in 1..Len(attempts) : attempts[i] \in Raising
             /\ Len(attempts) = max_retries
             /\ pdf_file = None

\* C7 witness: a call that used up a bound of at least two GETs, one of them
\* failing while the 200 body was streamed, and returned None
C7_Witness ==
    /\ pc = "downloaded"
    /\ pdf_file = None
    /\ max_retries >= 2
    /\ Len(attempts) = max_retries
    /\ \A i \in 1..Len(attempts) : attempts[i] \in Raising
    /\ \E i \in 1..Len(attempts) : attempts[i] = "stream_raise"

\* C7 as stated: a GET that receives 200 is the last GET of the call, and the
\* call returns the path; a GET that receives another status is the last one
\* and the call returns None; when every GET raises there are max_retries.
C7_AsStated ==
    /\ \A i \in 1..Len(attempts) :
          attempts[i] \in Got200 =>
              /\ i = Len(attempts)
              /\ pc = "downloaded" => pdf_file = Some(pdf_filename)
    /\ \A i \in 1..Len(attempts) :
          attempts[i] = "non200" =>
              /\ i = Len(attempts)
              /\ pc = "downloaded" => pdf_file = None
    /\ (pc = "downloaded" /\ \A i \in 1..Len(attempts) : attempts[i] \in Raising)
          => (Len(attempts) = max_retries /\ pdf_file = None)

\* C8: when download_pdf returns None, no file <SafeName>.pdf exists.
C8_NoFileWhenDownloadFails ==
    (pc = "downloaded" /\ pdf_file = None) => pdf_filename \notin files

(***************************************************************************)
(* The candidates of a document, as the specification lists them: pages in *)
(* order, on each page the embedded links' targets, then the plain-text    *)
(* URLs that contain the allowed host.                                     *)
(***************************************************************************)
HostMatches(u) == Contains(u, AllowedHost)

PageCandidates(d, p) ==
    LET links == SelectSeq(d[p].links, HasUri)
        texts == SelectSeq(FindAll(d[p].text), HostMatches)
    IN  [i \in 1..Len(links) |-> [url |-> links[i].uri, src |-> "link", page |-> p]]
        \o [i \in 1..Len(texts) |-> [url |-> texts[i], src |-> "text", page |-> p]]

RECURSIVE CandidatesUpTo(_, _)
CandidatesUpTo(d, n) ==
    IF n = 0 THEN << >> ELSE CandidatesUpTo(d, n - 1) \o PageCandidates(d, n)

Candidates(d) == CandidatesUpTo(d, Len(d))

IsConfirmedEntry(e) == e.verdict = Confirmed
ConfirmedUrls(entries) ==
    LET kept == SelectSeq(entries, IsConfirmedEntry) IN [i \in 1..Len(kept) |-> kept[i].url]

ScanEnded == pc = "scan" /\ cursor.page > Len(doc[1])

\* C9: the links classified so far are the document's candidates in
\* page-then-discovery order (all of them once the scan has ended), the
\* links kept are exactly the confirmed ones in that order, and no
\* plain-text URL without the allowed host is classified.
C9_ConfirmedLinksInDiscoveryOrder ==
    pc = "scan" =>
        LET expected == Candidates(doc[1]) IN
        /\ Len(log) <= Len(expected)
        /\ \A i \in 1..Len(log) :
              /\ log[i].url = expected[i].url
              /\ log[i].src = expected[i].src
              /\ log[i].page = expected[i].page
        /\ ScanEnded => Len(log) = Len(expected)
        /\ found = ConfirmedUrls(log)
        /\ \A i \in 1..Len(log) : log[i].src = "text" => HostMatches(log[i].url)

\* C9 witness: the scan of a two-page document has ended; the first page has
\* a link without target, a confirmed embedded link, a host-matching text URL
\* that was not confirmed and a text URL of another host; the second page's
\* embedded link was confirmed and its text URL was not
C9_Witness ==
    /\ ScanEnded
    /\ doc[1] = << PageMixed, PageTwice >>
    /\ found = << U2, U1 >>
    /\ Len(log) = 4

\* C10: a classification is Confirmed exactly when the answer has status 200
\* and its lower-cased text contains the marker; every candidate is
\* classified by one GET, whatever the verdicts before it, and only the
\* confirmed ones are kept.
C10_ConfirmedIffMarkerOn200 ==
    pc = "scan" =>
        /\ \A i \in 1..Len(log) :
              log[i].verdict = Confirmed <=>
                  /\ log[i].response.kind = "response"
                  /\ log[i].response.status = 200
                  /\ Contains(Lower(log[i].response.text), Marker)
        /\ Len(found) = Cardinality({ i \in 1..Len(log) : log[i].verdict = Confirmed })
        /\ ScanEnded => Len(log) = Len(Candidates(doc[1]))

\* C10 witness: a GET that raised and a non-200 answer whose text holds the
\* marker were both left out, a later candidate, answered with 200 and the
\* marker in mixed case, was classified and kept, and the last one, answered
\* with 200 and no marker, was left out
C10_Witness ==
    /\ ScanEnded
    /\ Len(log) = 4
    /\ log[1].response = Raised
    /\ log[2].response.kind = "response" /\ log[2].response.status = 404
    /\ Contains(log[2].response.text, Marker)
    /\ log[3].verdict = Confirmed
    /\ log[4].verdict = NotEditorial
    /\ found = << log[3].url >>


ColumnsDiagnostic == Say("must have columns Google Docs URL and Website URL", 0)

(***************************************************************************)
(* sanitize_filename alone: the call of line 120 on any label, followed by *)
(* the call of line 33 on its result.  extract_file_id alone: one call.    *)
(* The strings are built from up to MaxTokens pieces.                      *)
(***************************************************************************)
RECURSIVE Concat(_)
Concat(pieces) == IF pieces = << >> THEN << >> ELSE Head(pieces) \o Concat(Tail(pieces))

Built(tokens) == { Concat(t) : t \in UNION { [1..n -> tokens] : n \in 0..MaxTokens } }

\* a name one character short of the cut
LongName == [i \in 1..(MaxNameLen - 1) |-> "a"]

LabelTokens ==
    { Https, Http, << " " >>, << "a" >>, << "?" >>, << "h" >>, << "t","t","p","s",":","/","/" >>,
      LongName }

SanitizeArgs == { NaN, Num(<< "7" >>) } \cup { Str(x) : x \in Built(LabelTokens) }

UrlTokens ==
    { DocPrefix, << "A","1" >>, << "-","_" >>, << "/" >>, << "x" >>, << "?" >>,
      << "d","o","c","u","m","e","n","t","/","d","/" >> }

FileIdArgs == { NaN, Num(<< "7" >>) } \cup { Str(x) : x \in Built(UrlTokens) }

InitCall(name, args) ==
    /\ columns_ok = TRUE
    /\ rows = << [doc_url |-> Str(GoodDocUrl), website_url |-> Str(LabelA)] >>
    /\ pc = name
    /\ index = 0
    /\ results = << >>
    /\ formatted_title = None
    /\ editorial_links = None
    /\ safe_file_name = << >>
    /\ file_id = None
    /\ pdf_file = None
    /\ pdf_filename = << >>
    /\ retry_count = 0
    /\ max_retries = 0
    /\ doc = None
    /\ cursor = NoCursor
    /\ found = << >>
    /\ files = {}
    /\ stdout = << >>
    /\ attempts = << >>
    /\ log = << >>
    /\ qualified = << >>
    /\ arg \in args
    /\ ret = None

rest == << inputs, index, results, orch_locals, dl_locals, ex_locals, files, stdout, attempts,
           log, qualified >>

\* line 120: sanitize_filename(website_url)
CallSanitize ==
    /\ pc = "sanitize_filename"
    /\ ret' = Some(sanitize_filename(arg))
    /\ pc' = "sanitized"
    /\ UNCHANGED << arg, rest >>

\* line 33: download_pdf sanitizes the name it was given, the result of line 120
CallSanitizeAgain ==
    /\ pc = "sanitized"
    /\ arg' = ret[1]
    /\ ret' = Some(sanitize_filename(ret[1]))
    /\ pc' = "sanitized_twice"
    /\ UNCHANGED rest

InitSanitize == InitCall("sanitize_filename", SanitizeArgs)
NextSanitize ==
    \/ CallSanitize
    \/ CallSanitizeAgain

SpecSanitize == InitSanitize /\ [][NextSanitize]_vars

\* line 117: extract_file_id(...)
CallExtractFileId ==
    /\ pc = "extract_file_id"
    /\ ret' = extract_file_id(arg)
    /\ pc' = "extracted_id"
    /\ UNCHANGED << arg, rest >>

InitFileId == InitCall("extract_file_id", FileIdArgs)
NextFileId == CallExtractFileId
SpecFileId == InitFileId /\ [][NextFileId]_vars

\* C11: when the frame lacks a required column, the run ends at once: no row
\* is taken, no identifier extracted, no document fetched, no file created,
\* no link classified, no result produced, and the only output is the
\* diagnostic that names both columns.
C11_MissingColumnsAbort ==
    ~columns_ok =>
        /\ pc \in { "start", "aborted" }
        /\ index = 0
        /\ results = << >>
        /\ file_id = None
        /\ pdf_file = None
        /\ doc = None
        /\ attempts = << >>
        /\ log = << >>
        /\ files = {}
        /\ pc = "start" => stdout = << >>
        /\ pc = "aborted" => stdout = << ColumnsDiagnostic >>

\* C11 witness: a frame of two rows without the columns was rejected
C11_Witness == ~columns_ok /\ pc = "aborted" /\ Len(rows) = 2

NoIdRow == HasRow /\ ~Missing(Row) /\ extract_file_id(Str(ToStr(Row.doc_url))) = None

\* C12: the step that processes a row whose reference is present but holds
\* no identifier goes on to the next row: it fetches nothing, creates no
\* file, classifies no link and appends no record.
C12_NoIdentifierSkips ==
    [][NoIdRow =>
          /\ pc' = "row"
          /\ index' = index + 1
          /\ results' = results
          /\ qualified' = qualified
          /\ files' = files
          /\ attempts' = attempts
          /\ log' = log
          /\ pdf_file' = pdf_file]_vars

\* C12 witness: the second row had a reference without identifier and was
\* passed over; the results are those of the first, qualifying row
C12_Witness ==
    /\ pc = "row"
    /\ index = 2
    /\ ~Missing(rows[2])
    /\ extract_file_id(Str(ToStr(rows[2].doc_url))) = None
    /\ Len(qualified) = 1
    /\ Len(results) = 2 + Len(qualified[1].record.links)
    /\ files = {}


\* C13: whatever the label, the sanitized name has at most 200 characters,
\* none of the characters < > : " / \ | ? * and no leading http:// or
\* https://.
C13_SanitizedNameIsSafe ==
    pc \in { "sanitized", "sanitized_twice" } =>
        /\ Len(ret[1].s) <= MaxNameLen
        /\ \A i \in 1..Len(ret[1].s) : ret[1].s[i] \notin InvalidChars
        /\ ~StartsAt(ret[1].s, 1, Http)
        /\ ~StartsAt(ret[1].s, 1, Https)

\* C13 witness: a label longer than 200 characters that holds a scheme and
\* a reserved character was cut to 200 characters
C13_Witness ==
    /\ pc = "sanitized"
    /\ IsStr(arg)
    /\ Len(arg.s) > MaxNameLen
    /\ Contains(arg.s, Https)
    /\ \E i \in 1..Len(arg.s) : arg.s[i] = "?"
    /\ Len(ret[1].s) = MaxNameLen

\* C14: sanitizing a sanitized name gives the same name.
C14_SanitizeIdempotent == pc = "sanitized_twice" => ret[1] = arg

HasMatchAt(s, i) ==
    /\ StartsAt(s, i, DocPrefix)
    /\ i + Len(DocPrefix) <= Len(s)
    /\ s[i + Len(DocPrefix)] \in IdChars

\* id is the whole run of identifier characters that follows the prefix at i
IsIdAt(s, i, id) ==
    /\ id # << >>
    /\ \A k \in 1..Len(id) : id[k] \in IdChars
    /\ StartsAt(s, i, DocPrefix \o id)
    /\ \/ i + Len(DocPrefix) + Len(id) > Len(s)
       \/ s[i + Len(DocPrefix) + Len(id)] \notin IdChars

\* C15: extract_file_id returns None for an input that is empty, not a
\* string or without a match of the pattern, and otherwise the run of
\* identifier characters after the first match of the prefix.
C15_FileIdIsTheMatchedRun ==
    pc = "extracted_id" =>
        IF ~IsStr(arg) \/ ~\E i \in 1..Len(arg.s) : HasMatchAt(arg.s, i)
        THEN ret = None
        ELSE /\ ret # None
             /\ \E i \in 1..Len(arg.s) :
                   /\ IsIdAt(arg.s, i, ret[1])
                   /\ \A j \in 1..(i - 1) : ~HasMatchAt(arg.s, j)

\* C15 witness: the pattern matched after a leading character and the
\* identifier, of the characters "-" and "_", ran to the end of the string
C15_Witness ==
    /\ pc = "extracted_id"
    /\ IsStr(arg)
    /\ arg.s = << "x" >> \o DocPrefix \o << "-","_" >>
    /\ ret = Some(<< "-","_" >>)

\* the title the current row is meant to give its record
RowTitle == Replace(sanitize_filename(Row.website_url).s, << "_" >>, << "/" >>)

\* C16: a record enters the result sequence only while its own row is
\* processed, with that row's title and the links confirmed in that row's
\* document: no step appends a title or links left over from an earlier row.
C16_RecordsComeFromTheirRow ==
    [][Len(results') > Len(results) =>
          /\ pc = "scan"
          /\ \A i \in (Len(results) + 1)..Len(results') :
                results'[i] = [title |-> RowTitle, links |-> found]]_vars

\* C17: rows are processed one after the other: when a row is taken, no
\* document file of an earlier row is left, and at no time is there more
\* than one document file.
C17_OneDocumentFileAtATime ==
    /\ pc = "row" => files = {}
    /\ Cardinality(files) <= 1

QualifiedRows == { qualified[q].row : q \in 1..Len(qualified) }

Diagnostics == { "skipping row", "failed to download" }

\* C18: every row that ended without a record has a diagnostic of its own
\* in the output.
C18_SkippedRowsAreReported ==
    pc \in { "row", "done" } =>
        \A n \in 1..index :
            n \notin QualifiedRows =>
                \E k \in 1..Len(stdout) :
                    stdout[k].row = n /\ stdout[k].msg \in Diagnostics

Count(q, x) == Cardinality({ i \in 1..Len(q) : q[i] = x })

\* the places of document d where u is discovered: embedded links with
\* target u, and plain-text matches u that hold the allowed host
Discoveries(d, u) ==
    UNION { LET links == d[p].links
                texts == FindAll(d[p].text)
            IN  { << p, "link", k >> : k \in { k \in 1..Len(links) :
                      HasUri(links[k]) /\ links[k].uri = u } }
                \cup
                { << p, "text", k >> : k \in { k \in 1..Len(texts) :
                      texts[k] = u /\ HostMatches(u) } }
          : p \in 1..Len(d) }

Urls == { U1, U2 }

\* C19: nothing is deduplicated: a URL is in the list once per confirmed
\* classification, and once the scan has ended it has been classified once
\* per discovery.
C19_OneEntryPerConfirmedDiscovery ==
    pc = "scan" =>
        \A u \in Urls :
            /\ Count(found, u)
                  = Cardinality({ i \in 1..Len(log) :
                                    log[i].url = u /\ IsConfirmedEntry(log[i]) })
            /\ ScanEnded =>
                  Cardinality({ i \in 1..Len(log) : log[i].url = u })
                      = Cardinality(Discoveries(doc[1], u))

\* C19 witness: one URL, discovered as embedded link and as text on each of
\* two pages and confirmed four times, is in the list four times
C19_Witness ==
    /\ ScanEnded
    /\ doc[1] = << PageTwice, PageTwice >>
    /\ found = << U1, U1, U1, U1 >>

====
